---------------------------- MODULE Spec2Model ----------------------------
(***************************************************************************)
(* Model of app.py, the Streamlit script of the Medical Imaging Diagnosis  *)
(* Agent: the upload normalisation (process_uploaded_file, process_dicom,  *)
(* process_tiff, the resize step), the analysis step with its temporary    *)
(* PNG file, and the session state (GOOGLE_API_KEY, analyze_clicked).      *)
(*                                                                         *)
(* A script run is split at its blocking file-system and network calls,   *)
(* which are the points where the runs of two sessions can interleave.    *)
(***************************************************************************)
EXTENDS Integers, Sequences, FiniteSets, TLC

None == "None"

\* ------------------------------------------------------------------------
\* Bounds of the model
\* ------------------------------------------------------------------------

\* longest pixel matrix (flattened) drawn for process_dicom
MaxSamples == 2

\* largest width and height drawn for the resize step
MaxDim == 30

\* ------------------------------------------------------------------------
\* Arithmetic helpers
\* ------------------------------------------------------------------------

RECURSIVE GCD(_, _)
GCD(a, b) == IF b = 0 THEN a ELSE GCD(b, a % b)

Abs(x) == IF x < 0 THEN -x ELSE x

\* C-style division, truncating toward zero (float -> integer conversion)
TruncDiv(n, d) ==
    IF (n >= 0) = (d > 0) THEN Abs(n) \div Abs(d) ELSE -(Abs(n) \div Abs(d))

SeqMax(s) == CHOOSE x \in {s[i] : i \in 1..Len(s)} : \A j \in 1..Len(s) : s[j] <= x

SeqMin(s) == CHOOSE x \in {s[i] : i \in 1..Len(s)} : \A j \in 1..Len(s) : s[j] >= x

\* ------------------------------------------------------------------------
\* File names: uploaded_file.name.lower().split('.')[-1]
\* ------------------------------------------------------------------------

LowerChar(c) ==
    CASE c = "A" -> "a" [] c = "C" -> "c" [] c = "D" -> "d" [] c = "G" -> "g"
      [] c = "I" -> "i" [] c = "J" -> "j" [] c = "M" -> "m" [] c = "O" -> "o"
      [] c = "P" -> "p" [] OTHER -> c

Lower(name) == [i \in 1..Len(name) |-> LowerChar(name[i])]

\* the part of the name after its last '.', the whole name when it has none
LastSegment(name) ==
    LET dots == {i \in 1..Len(name) : name[i] = "."}
        last == IF dots = {} THEN 0 ELSE CHOOSE i \in dots : \A j \in dots : j <= i
    IN SubSeq(name, last + 1, Len(name))

FileExtension(name) == LastSegment(Lower(name))

ExtDcm == <<"d", "c", "m">>
ExtDicom == <<"d", "i", "c", "o", "m">>
ExtTif == <<"t", "i", "f">>
ExtTiff == <<"t", "i", "f", "f">>
ExtJpg == <<"j", "p", "g">>
ExtJpeg == <<"j", "p", "e", "g">>
ExtPng == <<"p", "n", "g">>

\* type=[...] of st.file_uploader
UploaderTypes == {ExtJpg, ExtJpeg, ExtPng, ExtTiff, ExtTif, ExtDcm, ExtDicom}

UploaderAccepts(name) ==
    /\ \E i \in 1..Len(name) : name[i] = "."
    /\ FileExtension(name) \in UploaderTypes

\* ------------------------------------------------------------------------
\* Exceptions: the chain of message prefixes, outermost first
\* ------------------------------------------------------------------------

Ok(v) == [ok |-> TRUE, val |-> v]

Raise(e) == [ok |-> FALSE, exc |-> e]

\* except Exception as e: raise Exception(f"<prefix>: {str(e)}")
Wrap(prefix, r) == IF r.ok THEN r ELSE Raise(<<prefix>> \o r.exc)

\* ------------------------------------------------------------------------
\* process_dicom: the rescale to the 8-bit range
\* ------------------------------------------------------------------------

\* numpy keeps the dtype of the matrix in integer arithmetic and wraps
WrapInt(dtype, v) ==
    CASE dtype = "uint8"  -> v % 256
      [] dtype = "uint16" -> v % 65536
      [] dtype = "int16"  -> ((v + 32768) % 65536) - 32768

\* float64 -> uint8 of astype(np.uint8): truncation inside 0..255; outside
\* that range the C cast is undefined and the build decides: x86 wraps the
\* truncated integer modulo 256, ARM saturates.
CastPolicies == {"wrap", "saturate"}

CastUint8(v, cast) ==
    IF v \in 0..255 THEN v
    ELSE IF cast = "wrap" THEN v % 256
    ELSE IF v < 0 THEN 0 ELSE 255

\* variant: scaled by 256, the number of levels, instead of 255
RescaleSampleScale256(dtype, x, mn, mx, cast) ==
    LET a == WrapInt(dtype, x - mn)
        d == WrapInt(dtype, mx - mn)
    IN IF d = 0 THEN 0 ELSE CastUint8(TruncDiv(a * 256, d), cast)

\* one sample of ((pixel_array - min) / (max - min) * 255).astype(np.uint8)
\* d = 0 makes the quotient NaN (0/0), which both builds cast to 0
RescaleSample(dtype, x, mn, mx, cast) ==
    LET a == WrapInt(dtype, x - mn)
        d == WrapInt(dtype, mx - mn)
    IN IF d = 0 THEN 0 ELSE CastUint8(TruncDiv(a * 255, d), cast)

Rescale(dtype, px, cast) ==
    [i \in 1..Len(px) |-> RescaleSample(dtype, px[i], SeqMin(px), SeqMax(px), cast)]

\* if pixel_array.max() > 255: rescale, else keep the matrix and its dtype
NormalizePixels(dtype, px, cast) ==
    IF SeqMax(px) > 255
    THEN [dtype |-> "uint8", px |-> Rescale(dtype, px, cast)]
    ELSE [dtype |-> dtype, px |-> px]

\* Image.fromarray: the mode PIL gives a 2-D array of the dtype
FromArrayMode(dtype) ==
    CASE dtype = "uint8"  -> "L"
      [] dtype = "uint16" -> "I;16"
      [] dtype = "int16"  -> "I"


\* ------------------------------------------------------------------------
\* Decoders (PIL, pydicom) on the payloads of the model
\* ------------------------------------------------------------------------

NoImage == [mode |-> "None", size |-> <<0, 0>>]

Raster(mode, w, h) == [kind |-> "raster", mode |-> mode, size |-> <<w, h>>]

Dicom(dtype, px) == [kind |-> "dicom", dtype |-> dtype, px |-> px]

Corrupt == [kind |-> "corrupt"]

Partial == [kind |-> "partial"]

Absent == [exists |-> FALSE, owner |-> 0, data |-> [kind |-> "none"]]

Stored(s, data) == [exists |-> TRUE, owner |-> s, data |-> data]

\* Image.open(uploaded_file)
ImageOpen(data) ==
    IF data.kind = "raster"
    THEN Ok([mode |-> data.mode, size |-> data.size])
    ELSE Raise(<<"UnidentifiedImageError">>)

\* if image.mode not in ('RGB', 'L'): image = image.convert('RGB')
ConvertMode(img) ==
    IF img.mode \notin {"RGB", "L"} THEN [img EXCEPT !.mode = "RGB"] ELSE img

\* process_dicom(temp_path) on what the path holds when it is read
ProcessDicom(file, cast) ==
    Wrap("Error processing DICOM file",
         IF ~file.exists THEN Raise(<<"FileNotFoundError">>)
         ELSE IF file.data.kind # "dicom" THEN Raise(<<"InvalidDicomError">>)
         ELSE LET n == NormalizePixels(file.data.dtype, file.data.px, cast)
              IN Ok([mode |-> FromArrayMode(n.dtype),
                     size |-> <<Len(n.px), 1>>]))

ProcessTiff(data) ==
    Wrap("Error processing TIFF file",
         LET r == ImageOpen(data)
         IN IF r.ok THEN Ok(ConvertMode(r.val)) ELSE r)

\* variant: the else branch without the conversion to RGB
ProcessGenericNoConvert(data) == ImageOpen(data)

\* the else branch of process_uploaded_file: every suffix that is not DICOM or TIFF
ProcessGeneric(data) ==
    LET r == ImageOpen(data)
    IN IF r.ok THEN Ok(ConvertMode(r.val)) ELSE r

IsDicomExt(ext) == ext \in {ExtDcm, ExtDicom}

IsTiffExt(ext) == ext \in {ExtTif, ExtTiff}

\* process_uploaded_file for the suffixes that never touch the disk
ProcessInMemory(f) ==
    Wrap("Error processing uploaded file",
         IF IsTiffExt(FileExtension(f.name)) THEN ProcessTiff(f.data)
         ELSE ProcessGeneric(f.data))

\* variant: the finally block leaves the file where it is
RemoveNever(file, removeOK) == [file |-> file, r |-> Ok(None)]

\* if os.path.exists(path): os.remove(path); removeOK is whether os.remove succeeds
RemoveIfExists(file, removeOK) ==
    IF ~file.exists THEN [file |-> file, r |-> Ok(None)]
    ELSE IF removeOK THEN [file |-> Absent, r |-> Ok(None)]
    ELSE [file |-> file, r |-> Raise(<<"PermissionError">>)]

\* ------------------------------------------------------------------------
\* The resize step
\* ------------------------------------------------------------------------

NewWidth == 500

\* Reduced ratios w:h (up to 64) for which the IEEE-754 double evaluation of
\* new_width / (width / height) falls just below its exact integer value:
\* width / height is rounded first, and the second quotient lands one ulp low.
DoubleShortfall ==
    {<<25, 3>>, <<25, 6>>, <<25, 11>>, <<25, 12>>, <<25, 22>>, <<25, 24>>,
     <<25, 39>>, <<25, 44>>, <<25, 48>>, <<50, 3>>, <<50, 11>>, <<50, 39>>}

\* the float quotient new_width / aspect_ratio, as the integer part int() keeps
\* and whether the quotient is an integer short by one ulp
FloatQuotient(w, h) ==
    LET g == GCD(w, h)
    IN [floor |-> (NewWidth * h) \div w,
        short |-> (NewWidth * h) % w = 0 /\ <<w \div g, h \div g>> \in DoubleShortfall]

\* variant: new_height = round(new_width / aspect_ratio)
NewHeightRound(w, h) == (2 * NewWidth * h + w) \div (2 * w)

\* new_height = int(new_width / aspect_ratio)
NewHeight(w, h) ==
    LET q == FloatQuotient(w, h) IN IF q.short THEN q.floor - 1 ELSE q.floor

\* image.resize((new_width, new_height)); a height of 0 is rejected by resize
Resize(img) ==
    LET nh == NewHeight(img.size[1], img.size[2])
    IN IF nh <= 0 THEN Raise(<<"ValueError">>)
       ELSE Ok([mode |-> img.mode, size |-> <<NewWidth, nh>>])


\* ------------------------------------------------------------------------
\* Inputs of the model
\* ------------------------------------------------------------------------

Sessions == {1, 2}

SingleSession == {1}

NoUpload == [name |-> <<>>, data |-> [kind |-> "none"]]

NameDcm == <<"a", ".", "d", "c", "m">>
NameDicomUpper == <<"a", ".", "D", "I", "C", "O", "M">>
NameTif == <<"a", ".", "t", "i", "f">>
NameTiff == <<"a", ".", "b", ".", "t", "i", "f", "f">>
NamePng == <<"a", ".", "p", "n", "g">>
NameJpgUpper == <<"a", ".", "J", "P", "G">>
NameBmp == <<"a", ".", "b", "m", "p">>
NameTxt == <<"a", ".", "t", "x", "t">>
NameNoDot == <<"s", "c", "a", "n">>

Payloads ==
    { Raster("RGB", 1000, 500), Raster("L", 3, 1), Raster("RGBA", 25, 3),
      Raster("P", 600, 1), Raster("I;16", 4, 4),
      Dicom("uint16", <<0, 4095>>), Dicom("uint16", <<0, 200>>),
      Dicom("uint8", <<7, 255>>), Dicom("int16", <<-1000, 3000>>),
      Dicom("uint16", <<300, 300>>),
      Corrupt }

File(n, d) == [name |-> n, data |-> d]

\* what a user can upload: any content under any name the uploader accepts
Files ==
    {File(NameDcm, d) : d \in Payloads}
    \cup { File(NameDicomUpper, Dicom("uint16", <<0, 4095>>)),
           File(NameTif, Raster("RGB", 1000, 500)), File(NameTif, Raster("RGBA", 25, 3)),
           File(NameTiff, Raster("I;16", 4, 4)), File(NameTiff, Corrupt),
           File(NamePng, Raster("RGB", 1000, 500)), File(NamePng, Raster("P", 600, 1)),
           File(NamePng, Raster("L", 3, 1)), File(NamePng, Dicom("uint8", <<7, 255>>)),
           File(NameJpgUpper, Raster("RGB", 25, 3)), File(NameJpgUpper, Corrupt) }

\* what process_uploaded_file can be handed when nothing filters the name
UnfilteredFiles ==
    Files \cup {File(n, d) : n \in {NameBmp, NameTxt, NameNoDot},
                             d \in {Raster("RGB", 1000, 500), Raster("P", 3, 1), Corrupt}}

\* outcomes of a call into the file system, the model or a constructor: TRUE is success
Unreliable == BOOLEAN

Reliable == {TRUE}

\* the uploads of the two-session specification
ConcFiles ==
    { File(NameDcm, Dicom("uint16", <<0, 4095>>)),
      File(NameDicomUpper, Dicom("uint8", <<7, 255, 9>>)),
      File(NamePng, Raster("RGB", 1000, 500)) }

\* ------------------------------------------------------------------------
\* State
\* ------------------------------------------------------------------------

VARIABLES
    GOOGLE_API_KEY,   \* st.session_state.GOOGLE_API_KEY is set (truthy), per session
    analyze_clicked,  \* st.session_state.analyze_clicked, per session
    uploaded_file,    \* the file uploader's value, per session
    medical_agent,    \* whether medical_agent is an Agent in the current run
    image,            \* image of the current run
    resized_image,    \* resized_image of the current run
    button,           \* the Analyze button was rendered by the current run
    pc,               \* position of the session's script run; "idle" between runs
    run,              \* what the session's current (or last) run did, see NewRun
    dcm,              \* the file temp_dicom_file.dcm
    png,              \* the file temp_medical_image.png
    fnIn,             \* input of a function applied on its own
    fnOut             \* its output

sessionVars == <<GOOGLE_API_KEY, analyze_clicked, uploaded_file, medical_agent,
                 image, resized_image, button, pc, run>>

fsVars == <<dcm, png>>

fnVars == <<fnIn, fnOut>>

vars == <<sessionVars, fsVars, fnVars>>

NotRun == Raise(<<"not run">>)

\* the record of one script run
NewRun(trig) ==
    [ trigger      |-> trig,     \* the UI event that started the run
      shown        |-> {},       \* messages the run has put on the page
      raised       |-> {},       \* places where the run raised an exception
      crashed      |-> FALSE,    \* the run was ended by an exception nothing caught
      returned     |-> NotRun,   \* what process_uploaded_file returned or raised
      pending      |-> NotRun,   \* DICOM branch: outcome of the try body
      model_called |-> FALSE,    \* the run called medical_agent.run
      outcome      |-> "none",   \* how the analysis of a click with an agent went
      parsed       |-> Absent,   \* what dcmread found at temp_dicom_file.dcm
      sent         |-> Absent ]  \* what the model found at temp_medical_image.png

ScriptInit ==
    /\ GOOGLE_API_KEY = [s \in Sessions |-> FALSE]
    /\ analyze_clicked = [s \in Sessions |-> FALSE]
    /\ uploaded_file = [s \in Sessions |-> NoUpload]
    /\ medical_agent = [s \in Sessions |-> FALSE]
    /\ image = [s \in Sessions |-> NoImage]
    /\ resized_image = [s \in Sessions |-> NoImage]
    /\ button = [s \in Sessions |-> FALSE]
    /\ pc = [s \in Sessions |-> "idle"]
    /\ run = [s \in Sessions |-> NewRun("none")]
    /\ dcm = Absent
    /\ png = Absent

NoCall == [fn |-> "none"]

FnIdle == fnIn = NoCall /\ fnOut = NoCall

\* ------------------------------------------------------------------------
\* Exception handling of the script
\* ------------------------------------------------------------------------

\* variant: except OSError, which lets every other exception through
ExceptOSErrorOnly(msg, exc) == [caught |-> exc[Len(exc)] = "OSError", msg |-> msg]

\* except Exception as e: st.error(f"<msg>: {str(e)}")
ExceptException(msg, exc) == [caught |-> TRUE, msg |-> msg]

\* try: body finally: fin -- an exception of the finally block replaces the outcome
TryFinally(body, fin) == IF fin.ok THEN body ELSE fin

\* lines 203-228: what the image container does with process_uploaded_file's outcome
ImageContainer(r) ==
    LET rr == IF r.ok THEN Resize(r.val) ELSE r
    IN [ image   |-> IF r.ok THEN r.val ELSE NoImage,
         resized |-> IF rr.ok THEN rr.val ELSE NoImage,
         button  |-> rr.ok,
         r       |-> rr ]

\* ------------------------------------------------------------------------
\* UI events: each starts a script run of the session
\* ------------------------------------------------------------------------

\* lines 10-198 of a run: session state, sidebar, agent construction, uploader
StartRun(s, trig, key, clicked, file, Env) ==
    /\ pc[s] = "idle"
    /\ \E initOK \in Env :
         LET h == ExceptException("Error initializing Gemini model", <<"init">>)
             agent == key /\ initOK
             failed == key /\ ~initOK
             msgs == (IF failed /\ h.caught THEN {h.msg} ELSE {})
                     \cup (IF ~agent THEN {"Please configure your API key"} ELSE {})
                     \cup (IF file = NoUpload THEN {"Please upload a medical image"} ELSE {})
             dead == failed /\ ~h.caught
         IN /\ medical_agent' = [medical_agent EXCEPT ![s] = agent]
            /\ run' = [run EXCEPT ![s] =
                         [NewRun(trig) EXCEPT !.shown = msgs,
                                              !.raised = IF failed THEN {"init"} ELSE {},
                                              !.crashed = dead]]
            /\ pc' = [pc EXCEPT ![s] = IF dead \/ file = NoUpload THEN "idle" ELSE "process"]
    /\ GOOGLE_API_KEY' = [GOOGLE_API_KEY EXCEPT ![s] = key]
    /\ analyze_clicked' = [analyze_clicked EXCEPT ![s] = clicked]
    /\ uploaded_file' = [uploaded_file EXCEPT ![s] = file]
    /\ image' = [image EXCEPT ![s] = NoImage]
    /\ resized_image' = [resized_image EXCEPT ![s] = NoImage]
    /\ button' = [button EXCEPT ![s] = FALSE]
    /\ UNCHANGED <<fsVars, fnVars>>

\* the user picks a file in the uploader, or clears it
Upload(s, F, Env) ==
    \E f \in F \cup {NoUpload} :
        StartRun(s, "upload", GOOGLE_API_KEY[s], analyze_clicked[s], f, Env)

\* the user types a key into the sidebar: lines 100-103, then the rerun
EnterKey(s, Env) ==
    /\ ~GOOGLE_API_KEY[s]
    /\ StartRun(s, "key", TRUE, analyze_clicked[s], uploaded_file[s], Env)

\* the Reset API Key button: lines 106-108, then the rerun
ResetKey(s, Env) ==
    /\ GOOGLE_API_KEY[s]
    /\ StartRun(s, "reset", FALSE, analyze_clicked[s], uploaded_file[s], Env)

\* the Analyze button, rendered by the last run: on_analyze_click, then the run
Click(s, Env) ==
    /\ button[s]
    /\ StartRun(s, "click", GOOGLE_API_KEY[s], TRUE, uploaded_file[s], Env)

\* any other rerun of the script (the page's Rerun command)
Rerun(s, Env) ==
    StartRun(s, "rerun", GOOGLE_API_KEY[s], analyze_clicked[s], uploaded_file[s], Env)


\* ------------------------------------------------------------------------
\* Steps of a script run
\* ------------------------------------------------------------------------

\* what a handler adds to the run: its message when it catches, a crash when not
Handled(r, place, h) ==
    [r EXCEPT !.shown = IF h.caught THEN @ \cup {h.msg} ELSE @,
              !.raised = @ \cup {place},
              !.crashed = @ \/ ~h.caught]

\* lines 202-228 once process_uploaded_file has returned or raised r
FinishImage(s, r) ==
    LET c == ImageContainer(r)
        h == IF c.r.ok THEN [caught |-> TRUE, msg |-> ""]
             ELSE ExceptException("Error processing image", c.r.exc)
        r1 == [run[s] EXCEPT !.returned = r]
        r2 == IF c.r.ok THEN r1 ELSE Handled(r1, "image", h)
    IN /\ image' = [image EXCEPT ![s] = c.image]
       /\ resized_image' = [resized_image EXCEPT ![s] = c.resized]
       /\ button' = [button EXCEPT ![s] = c.button]
       /\ run' = [run EXCEPT ![s] = r2]
       /\ pc' = [pc EXCEPT ![s] = IF r2.crashed THEN "idle" ELSE "analysis"]
       /\ UNCHANGED <<GOOGLE_API_KEY, analyze_clicked, uploaded_file, medical_agent>>

\* process_uploaded_file, TIFF and generic branches (lines 58, 72-84)
ProcessOther(s) ==
    /\ pc[s] = "process"
    /\ ~IsDicomExt(FileExtension(uploaded_file[s].name))
    /\ FinishImage(s, ProcessInMemory(uploaded_file[s]))
    /\ UNCHANGED <<fsVars, fnVars>>

\* process_uploaded_file, DICOM branch: open(temp_path, "wb") and f.write (lines 60-64)
DicomWrite(s, Env) ==
    /\ pc[s] = "process"
    /\ IsDicomExt(FileExtension(uploaded_file[s].name))
    /\ \/ /\ TRUE \in Env
          /\ dcm' = Stored(s, uploaded_file[s].data)
          /\ pc' = [pc EXCEPT ![s] = "dicom_read"]
          /\ UNCHANGED <<GOOGLE_API_KEY, analyze_clicked, uploaded_file, medical_agent,
                         image, resized_image, button, run>>
       \/ \* open() fails: nothing is created
          /\ FALSE \in Env
          /\ UNCHANGED dcm
          /\ FinishImage(s, Wrap("Error processing uploaded file", Raise(<<"OSError">>)))
       \/ \* open() created or truncated the file and write() fails
          /\ FALSE \in Env
          /\ dcm' = Stored(s, Partial)
          /\ FinishImage(s, Wrap("Error processing uploaded file", Raise(<<"OSError">>)))
    /\ UNCHANGED <<png, fnVars>>

\* image = process_dicom(temp_path): reads whatever the path holds now (line 67)
DicomRead(s) ==
    /\ pc[s] = "dicom_read"
    /\ \E cast \in CastPolicies :
         run' = [run EXCEPT ![s].pending = ProcessDicom(dcm, cast), ![s].parsed = dcm]
    /\ pc' = [pc EXCEPT ![s] = "dicom_cleanup"]
    /\ UNCHANGED <<GOOGLE_API_KEY, analyze_clicked, uploaded_file, medical_agent,
                   image, resized_image, button, fsVars, fnVars>>

\* finally: if os.path.exists(temp_path): os.remove(temp_path) (lines 68-70, 82-84)
DicomCleanup(s, Env) ==
    /\ pc[s] = "dicom_cleanup"
    /\ \E removeOK \in Env :
         LET c == RemoveIfExists(dcm, removeOK)
         IN /\ dcm' = c.file
            /\ FinishImage(s, Wrap("Error processing uploaded file",
                                   TryFinally(run[s].pending, c.r)))
    /\ UNCHANGED <<png, fnVars>>

\* lines 230-239: the analysis container up to resized_image.save
AnalysisStart(s, Env) ==
    /\ pc[s] = "analysis"
    /\ \/ /\ ~analyze_clicked[s]
          /\ pc' = [pc EXCEPT ![s] = "idle"]
          /\ UNCHANGED <<run, png>>
       \/ /\ analyze_clicked[s] /\ ~medical_agent[s]
          /\ run' = [run EXCEPT ![s].shown =
                        @ \cup {"Please configure your API key before analyzing images."}]
          /\ pc' = [pc EXCEPT ![s] = "idle"]
          /\ UNCHANGED png
       \/ /\ analyze_clicked[s] /\ medical_agent[s] /\ resized_image[s] = NoImage
          /\ run' = [run EXCEPT ![s].shown = @ \cup {"Error: Image processing failed"},
                                ![s].outcome = "no_image"]
          /\ pc' = [pc EXCEPT ![s] = "cleanup"]
          /\ UNCHANGED png
       \/ /\ analyze_clicked[s] /\ medical_agent[s] /\ resized_image[s] # NoImage
          /\ \/ /\ TRUE \in Env
                /\ png' = Stored(s, resized_image[s])
                /\ pc' = [pc EXCEPT ![s] = "model"]
                /\ UNCHANGED run
             \/ \* save() raises, before or after the file was created
                /\ FALSE \in Env
                /\ png' \in {png, Stored(s, Partial)}
                /\ run' = [run EXCEPT ![s] =
                             Handled([@ EXCEPT !.outcome = "save_failed"], "save",
                                     ExceptException("Error saving image", <<"OSError">>))]
                /\ pc' = [pc EXCEPT ![s] = "cleanup"]
    /\ UNCHANGED <<GOOGLE_API_KEY, analyze_clicked, uploaded_file, medical_agent,
                   image, resized_image, button, dcm, fnVars>>

\* medical_agent.run(query, images=[image_path]) (lines 241-253)
ModelCall(s, Env) ==
    /\ pc[s] = "model"
    /\ \E ok \in Env :
         LET r1 == [run[s] EXCEPT !.model_called = TRUE, !.sent = png]
         IN run' = [run EXCEPT ![s] =
                      IF ok THEN [r1 EXCEPT !.shown = @ \cup {"Analysis Results"},
                                            !.outcome = "result"]
                      ELSE Handled([r1 EXCEPT !.outcome = "model_failed"], "model",
                                   ExceptException("Analysis error", <<"ModelError">>))]
    /\ pc' = [pc EXCEPT ![s] = "cleanup"]
    /\ UNCHANGED <<GOOGLE_API_KEY, analyze_clicked, uploaded_file, medical_agent,
                   image, resized_image, button, fsVars, fnVars>>

\* finally: remove image_path if it exists; then the reset of analyze_clicked,
\* which an exception leaving the try statement skips (lines 258-266)
AnalysisCleanup(s, Env) ==
    /\ pc[s] = "cleanup"
    /\ \E removeOK \in Env :
         LET c == RemoveIfExists(png, removeOK)
             r1 == IF c.r.ok THEN run[s]
                   ELSE Handled(run[s], "remove",
                                ExceptException("Could not remove temporary file", c.r.exc))
         IN /\ png' = c.file
            /\ run' = [run EXCEPT ![s] = r1]
            /\ analyze_clicked' = [analyze_clicked EXCEPT ![s] = IF r1.crashed THEN @ ELSE FALSE]
    /\ pc' = [pc EXCEPT ![s] = "idle"]
    /\ UNCHANGED <<GOOGLE_API_KEY, uploaded_file, medical_agent,
                   image, resized_image, button, dcm, fnVars>>

\* ------------------------------------------------------------------------
\* Specifications
\* ------------------------------------------------------------------------

Step(s, F, Env) ==
    \/ Upload(s, F, Env)
    \/ EnterKey(s, Env)
    \/ ResetKey(s, Env)
    \/ Click(s, Env)
    \/ Rerun(s, Env)
    \/ ProcessOther(s)
    \/ DicomWrite(s, Env)
    \/ DicomRead(s)
    \/ DicomCleanup(s, Env)
    \/ AnalysisStart(s, Env)
    \/ ModelCall(s, Env)
    \/ AnalysisCleanup(s, Env)

Init == ScriptInit /\ FnIdle

\* one session, uploads filtered by the file uploader, calls that may fail
Next == \E s \in SingleSession : Step(s, Files, Unreliable)

Spec == Init /\ [][Next]_vars

\* one session, process_uploaded_file handed names the uploader would not pass
NextUnfiltered == \E s \in SingleSession : Step(s, UnfilteredFiles, Unreliable)

SpecUnfiltered == Init /\ [][NextUnfiltered]_vars

\* two sessions of the same server process, sharing its working directory;
\* every call into the file system and the model succeeds
NextTwoSessions == \E s \in Sessions : Step(s, ConcFiles, Reliable)

SpecTwoSessions == Init /\ [][NextTwoSessions]_vars


\* ------------------------------------------------------------------------
\* process_dicom's rescale and the resize step applied on their own
\* ------------------------------------------------------------------------

SampleValues(dtype) ==
    CASE dtype = "uint8"  -> {0, 7, 255}
      [] dtype = "uint16" -> {0, 1, 200, 255, 256, 300, 4095, 65535}
      [] dtype = "int16"  -> {-32768, -1000, -1, 0, 255, 256, 3000, 32767}

Matrices(dtype) ==
    UNION {[1..n -> SampleValues(dtype)] : n \in 1..MaxSamples}

RescaleInputs ==
    UNION {{[fn |-> "rescale", dtype |-> d, px |-> m, cast |-> c] :
               m \in Matrices(d), c \in CastPolicies} : d \in {"uint16", "int16"}}
    \cup {[fn |-> "rescale", dtype |-> "uint8", px |-> m, cast |-> "wrap"] :
             m \in Matrices("uint8")}

ResizeInputs ==
    {[fn |-> "resize", mode |-> "L", size |-> <<w, h>>] : w \in 1..MaxDim, h \in 1..MaxDim}
    \cup {[fn |-> "resize", mode |-> "RGB", size |-> z] :
             z \in {<<1000, 500>>, <<512, 512>>, <<600, 1>>, <<500, 1>>, <<640, 480>>}}

FnInit == ScriptInit /\ fnIn \in RescaleInputs \cup ResizeInputs /\ fnOut = NoCall

\* lines 28-33 of process_dicom on the pixel matrix fnIn.px
ApplyNormalize ==
    /\ fnIn.fn = "rescale" /\ fnOut = NoCall
    /\ fnOut' = [fn |-> "rescale", n |-> NormalizePixels(fnIn.dtype, fnIn.px, fnIn.cast)]
    /\ UNCHANGED <<fnIn, sessionVars, fsVars>>

\* lines 209-213 on an image of size fnIn.size
ApplyResize ==
    /\ fnIn.fn = "resize" /\ fnOut = NoCall
    /\ fnOut' = [fn |-> "resize", r |-> Resize([mode |-> fnIn.mode, size |-> fnIn.size])]
    /\ UNCHANGED <<fnIn, sessionVars, fsVars>>

NextFn == ApplyNormalize \/ ApplyResize

SpecFn == FnInit /\ [][NextFn]_vars


\* ------------------------------------------------------------------------
\* Properties
\* ------------------------------------------------------------------------

Ext(s) == FileExtension(uploaded_file[s].name)

\* process_uploaded_file has returned or raised in the session's current run
Returned(s) == run[s].returned # NotRun

\* the analysis step handled a click with a configured agent and has completed
Analysed(s) == pc[s] = "idle" /\ run[s].outcome # "none"

RemoveWarning == "Could not remove temporary file"

\* C1: for a DICOM upload, temp_dicom_file.dcm does not exist once
\* process_uploaded_file has returned or raised, on every exit path
C1_TempDicomGone ==
    \A s \in SingleSession : (Returned(s) /\ IsDicomExt(Ext(s))) => ~dcm.exists

\* C2 as stated: after the analysis step of a click with a configured agent has
\* completed, temp_medical_image.png does not exist, whatever the outcome
C2_TempPngGone ==
    \A s \in SingleSession : Analysed(s) => ~png.exists

\* C2 amended: after the analysis step has completed, temp_medical_image.png
\* does not exist unless os.remove itself failed, and then the warning is shown
C2_TempPngGoneUnlessRemoveFailed ==
    \A s \in SingleSession :
        Analysed(s) =>
            \/ ~png.exists
            \/ "remove" \in run[s].raised /\ RemoveWarning \in run[s].shown

\* the model call failed after the image was saved, and the file is gone
C2_Witness ==
    /\ Analysed(1) /\ run[1].outcome = "model_failed"
    /\ run[1].sent.exists /\ ~png.exists

\* C3: a run calls the model only when an Analyze click started it, and after
\* every run analyze_clicked is False again
C3_OneCallPerClick ==
    \A s \in SingleSession :
        /\ run[s].model_called => run[s].trigger = "click"
        /\ pc[s] = "idle" => ~analyze_clicked[s]

\* C4: every image process_uploaded_file returns has mode 'L' or 'RGB'
C4_ModeNormalized ==
    \A s \in SingleSession :
        run[s].returned.ok => run[s].returned.val.mode \in {"L", "RGB"}

\* C5 as stated: on a suffix outside the accepted set process_uploaded_file
\* fails, whatever the content, and returns no image
C5_UnsupportedSuffixFails ==
    \A s \in SingleSession :
        (Returned(s) /\ Ext(s) \notin UploaderTypes) => ~run[s].returned.ok

\* C5 amended: on a suffix outside the accepted set process_uploaded_file takes
\* the generic branch: it returns the decoded image, in mode 'L' or 'RGB', exactly
\* when the content is one PIL decodes, and otherwise raises the decoder's error
\* wrapped as "Error processing uploaded file"; the disk is not touched
C5_UnsupportedSuffixDecodedByContent ==
    \A s \in SingleSession :
        (Returned(s) /\ Ext(s) \notin UploaderTypes) =>
            LET d == uploaded_file[s].data
                r == run[s].returned
            IN /\ r.ok <=> d.kind = "raster"
               /\ r.ok => /\ r.val.size = d.size
                          /\ r.val.mode \in {"L", "RGB"}
                          /\ d.mode \in {"L", "RGB"} => r.val.mode = d.mode
               /\ ~r.ok => r.exc = <<"Error processing uploaded file", "UnidentifiedImageError">>
               /\ run[s].parsed = Absent

\* a palette image named a.bmp has been returned
C5_Witness ==
    /\ Returned(1) /\ uploaded_file[1] = File(NameBmp, Raster("P", 3, 1))
    /\ run[1].returned.ok

\* C6: a failure to delete a temporary file is not the result of the operation:
\* a DICOM upload that was decoded is returned, and an analysis that produced a
\* result shows it, whether or not the removal failed
C6_RemoveFailureIsNotTheResult ==
    \A s \in SingleSession :
        /\ (Returned(s) /\ run[s].pending.ok) => run[s].returned = run[s].pending
        /\ (Analysed(s) /\ run[s].outcome = "result") =>
              /\ "Analysis Results" \in run[s].shown
              /\ ~run[s].crashed

\* the message each handler shows for the place where the exception was raised
MessageOf(place) ==
    CASE place = "init"   -> "Error initializing Gemini model"
      [] place = "image"  -> "Error processing image"
      [] place = "save"   -> "Error saving image"
      [] place = "model"  -> "Analysis error"
      [] place = "remove" -> RemoveWarning

\* the positions of a script run; at each of them a statement of the script is
\* ready to execute, whatever the state: between runs ("idle") a UI event
Positions == {"idle", "process", "dicom_read", "dicom_cleanup", "analysis", "model", "cleanup"}

\* C7: every exception raised in a run is caught in it and shown as a message,
\* no run is ended by an exception, the run is always at a position of the script
\* from which it goes on, and a run that displayed the image leaves the Analyze
\* button on the page, so that the user can upload again or click again
C7_ErrorsCaughtAndShown ==
    \A s \in SingleSession :
        /\ ~run[s].crashed
        /\ \A p \in run[s].raised : MessageOf(p) \in run[s].shown
        /\ pc[s] \in Positions
        /\ pc[s] = "idle" /\ resized_image[s] # NoImage => button[s]
        /\ pc[s] = "idle" /\ run[s].raised # {} /\ run[s].outcome # "none"
              => ~analyze_clicked[s]

\* a run in which the model call and the removal of the file both failed
C7_Witness ==
    /\ pc[1] = "idle"
    /\ {"model", "remove"} \subseteq run[1].raised

\* C8 as stated: whenever max(M) > 255, every output sample is in [0, 255],
\* every maximum of M becomes 255 and every minimum becomes 0
C8_RescaleFullRange ==
    (fnOut.fn = "rescale" /\ SeqMax(fnIn.px) > 255) =>
        \A i \in 1..Len(fnIn.px) :
            /\ fnOut.n.px[i] \in 0..255
            /\ fnIn.px[i] = SeqMax(fnIn.px) => fnOut.n.px[i] = 255
            /\ fnIn.px[i] = SeqMin(fnIn.px) => fnOut.n.px[i] = 0

\* C8 amended: the same for every M with max(M) > 255 whose samples are not all
\* equal; the output has as many samples as M and is of type uint8
C8_RescaleFullRangeUnlessConstant ==
    (fnOut.fn = "rescale" /\ SeqMax(fnIn.px) > 255 /\ SeqMin(fnIn.px) < SeqMax(fnIn.px)) =>
        /\ fnOut.n.dtype = "uint8"
        /\ Len(fnOut.n.px) = Len(fnIn.px)
        /\ \A i \in 1..Len(fnIn.px) :
            /\ fnOut.n.px[i] \in 0..255
            /\ fnIn.px[i] = SeqMax(fnIn.px) => fnOut.n.px[i] = 255
            /\ fnIn.px[i] = SeqMin(fnIn.px) => fnOut.n.px[i] = 0

\* a signed matrix with a negative minimum has been rescaled
C8_Witness ==
    /\ fnOut.fn = "rescale" /\ fnIn.dtype = "int16"
    /\ fnIn.px = <<-1000, 3000>> /\ fnOut.n.px = <<0, 255>>

\* C9 as stated: the resized image is 500 wide and its height is
\* 500 * height / width rounded to the nearest integer
C9_HeightRounded ==
    fnOut.fn = "resize" =>
        /\ fnOut.r.ok
        /\ fnOut.r.val.size[1] = 500
        /\ 2 * Abs(fnOut.r.val.size[2] * fnIn.size[1] - 500 * fnIn.size[2]) <= fnIn.size[1]

\* C9 amended: the resized image is 500 wide and its height is 500 * height / width
\* truncated to an integer, one less when the double quotient falls just short of
\* an exact integer (25x3 gives 59, not 60); when that height is 0 the resize
\* raises and no image is displayed
C9_HeightTruncated ==
    fnOut.fn = "resize" =>
        LET w == fnIn.size[1]
            h == fnIn.size[2]
            g == GCD(w, h)
            short == <<w \div g, h \div g>> \in DoubleShortfall
        IN IF fnOut.r.ok
           THEN LET nh == fnOut.r.val.size[2]
                IN /\ fnOut.r.val.size[1] = 500
                   /\ fnOut.r.val.mode = fnIn.mode
                   /\ nh >= 1
                   /\ nh * w <= 500 * h
                   /\ \/ 500 * h < (nh + 1) * w
                      \/ 500 * h = (nh + 1) * w /\ short
                   /\ (500 * h) % w = 0 /\ ~short => nh * w = 500 * h
           ELSE 500 * h < w

\* a 3x1 image has been resized to 500x166
C9_Witness ==
    /\ fnOut.fn = "resize" /\ fnIn.size = <<3, 1>>
    /\ fnOut.r.ok /\ fnOut.r.val.size = <<500, 166>>

\* C10: what a session's model call finds at temp_medical_image.png is the image
\* that session saved, and what its dcmread finds at temp_dicom_file.dcm is the
\* payload that session wrote (the file is there and holds the session's content)
C10_SessionsIsolated ==
    \A s \in Sessions :
        /\ run[s].model_called =>
              run[s].sent.exists /\ run[s].sent.data = resized_image[s]
        /\ pc[s] = "dicom_cleanup" =>
              run[s].parsed.exists /\ run[s].parsed.data = uploaded_file[s].data

=============================================================================
